---------------------------- MODULE Spec2Model ----------------------------
(***************************************************************************)
(* A model of the deta.rs client library:                                  *)
(*   - Drive::put   (src/src/drive.rs): small upload and chunked upload    *)
(*   - Query        (src/src/query.rs): the query builder, its             *)
(*                   serialization and the pagination walker               *)
(*   - Base::put    (src/src/base.rs): the bulk upsert                     *)
(*   - the updaters (src/src/updater.rs, base.rs, utils.rs) and the body   *)
(*                   of the PATCH request they produce                     *)
(* Every blocking network call is one step; the server's answer to it is   *)
(* the nondeterministic input of that step.                                *)
(***************************************************************************)
EXTENDS Integers, Sequences, FiniteSets, TLC

VARIABLES
    d_pc,        \* position of Drive::put: "call", "parts", "done", "panicked"
    d_save_as,   \* argument save_as (a sequence of characters)
    d_len,       \* content.len()
    d_init,      \* the outcome of the initiate request ("none" before it)
    d_upload_id, \* local upload_id
    d_file_name, \* local file_name
    d_done,      \* local done: the status codes pushed so far
    d_reqs,      \* every request issued by this call, in order
    d_result,    \* what put returned: "none", "Ok", "Err"
    q,           \* the Query builder (self): limit, last, sort, container, map
    w_pc,        \* position of Query::walk: "build", "loop", "done", "panicked"
    w_items,     \* local items of walk
    w_last,      \* local last of walk
    w_reqs,      \* the bodies of the query requests issued by walk, in order
    w_resps,     \* the answers to these requests, in order
    w_result,    \* what walk returned
    b_calls,     \* the builder methods called on q so far, in order
    b_pre,       \* the builder as it was before the last of these calls
    p_pc,        \* position of Base::put: "call", "done", "panicked"
    p_records,   \* argument records of Base::put
    p_reqs,      \* the requests issued by Base::put
    p_result,    \* what Base::put returned
    u_calls,     \* the updater methods called so far, in order
    u_data,      \* updater.rs Updater: data
    u_updates,   \* base.rs Updater and utils.rs UpdateBuilder: updates
    u_body       \* the serialized update of each of the three updaters

dvars == <<d_pc, d_save_as, d_len, d_init, d_upload_id, d_file_name, d_done,
           d_reqs, d_result>>

qvars == <<q, w_pc, w_items, w_last, w_reqs, w_resps, w_result>>

bvars == <<b_calls, b_pre>>

pvars == <<p_pc, p_records, p_reqs, p_result>>

uvars == <<u_calls, u_data, u_updates, u_body>>

vars == <<dvars, qvars, bvars, pvars, uvars>>

----------------------------------------------------------------------------
(* Bounds and program constants *)

\* content lengths range over k * CHUNK_SIZE + {-1, 0, 1} for k in 0..MaxChunks
MaxChunks == 3

\* drive.rs:65, the threshold of the small-object path (10 * 1024 * 1024)
MAX_CHUNK_SIZE == 10485760

\* drive.rs:77, const CHUNK_SIZE (10 * 1024 * 1024)
CHUNK_SIZE == 10485760

ContentLens ==
    { n \in { k * CHUNK_SIZE + d : k \in 0..MaxChunks, d \in {-1, 0, 1} } : n >= 0 }

\* names the caller passes as save_as
SaveNames == { <<"a">>, <<"a", "&", "b">>, <<"a", "%">> }

\* JSON values found in the initiate response
JNull == [t |-> "null", s |-> <<>>]
JStr(s) == [t |-> "string", s |-> s]

\* names the server may return in the initiate response
ServerNames == SaveNames \cup { <<"x", "\"", "y">> }

UploadIds == { <<"u", "1">> }

\* status codes of a part upload's response
PartStatuses == { 200, 500 }

----------------------------------------------------------------------------
(* Pure helpers of Drive::put *)

RECURSIVE EscapeJson(_)
\* serde_json's string escaping, for the characters of the model
EscapeJson(s) ==
    IF s = <<>> THEN <<>>
    ELSE LET c == Head(s) IN
         (IF c = "\"" THEN <<"\\", "\"">>
          ELSE IF c = "\\" THEN <<"\\", "\\">>
          ELSE <<c>>) \o EscapeJson(Tail(s))

\* Value::to_string(): the JSON text of a value
ValueToString(v) ==
    IF v.t = "null" THEN <<"n", "u", "l", "l">>
    ELSE <<"\"">> \o EscapeJson(v.s) \o <<"\"">>

\* init_data[..].to_string().replace("\"", "")
StripQuotes(v) == SelectSeq(ValueToString(v), LAMBDA c : c # "\"")

\* a variant that sends exactly MAX_CHUNK_SIZE bytes down the large path
UseSmallPath_strict(len) == len < MAX_CHUNK_SIZE

\* if content.len() <= 10 * 1024 * 1024
UseSmallPath(len) == len <= MAX_CHUNK_SIZE

\* content.chunks(CHUNK_SIZE): consecutive slices (offset, length) of content,
\* each of CHUNK_SIZE bytes but the last, which holds the remainder
Chunks(len) ==
    LET n == (len + CHUNK_SIZE - 1) \div CHUNK_SIZE
    IN  [ i \in 1..n |->
            [ off  |-> (i - 1) * CHUNK_SIZE,
              size |-> IF len - (i - 1) * CHUNK_SIZE < CHUNK_SIZE
                       THEN len - (i - 1) * CHUNK_SIZE ELSE CHUNK_SIZE ] ]

\* done.iter().all(|&x| x == 200)
AllSucceeded(done) == \A i \in 1..Len(done) : done[i] = 200

\* one request of Drive::put: method, endpoint, the upload id and the name
\* formatted into the URL, the part number, and the slice of content sent
DriveReq(method, path, upload_id, name, part, off, size) ==
    [ method |-> method, path |-> path, upload_id |-> upload_id,
      name |-> name, part |-> part, off |-> off, size |-> size ]

\* what the initiate request can come back with
InitOutcomes ==
    { [kind |-> "transport_error", upload_id |-> JNull, name |-> JNull],
      [kind |-> "not_json", upload_id |-> JNull, name |-> JNull] }
    \cup
    { [kind |-> "json", upload_id |-> u, name |-> n] :
        u \in {JNull} \cup { JStr(x) : x \in UploadIds },
        n \in {JNull} \cup { JStr(x) : x \in ServerNames } }

\* what a part upload can come back with: a transport error, or a response
PartOutcomes ==
    { [transport_error |-> TRUE, status |-> 0] }
    \cup { [transport_error |-> FALSE, status |-> st] : st \in PartStatuses }

NoInit == [kind |-> "none", upload_id |-> JNull, name |-> JNull]


----------------------------------------------------------------------------
(* Query: the builder and its serialization (query.rs) *)

\* the most query requests one walk issues in the model
MaxRequests == 3

\* an empty serde_json::Map
EmptyMap == [k \in {} |-> 0]

\* Option<T>: None is <<>>, Some(x) is <<x>>
None == <<>>
Some(x) == <<x>>

\* Query::new
Query_new ==
    [ limit |-> Some(1000), last |-> None, sort |-> Some(FALSE),
      container |-> <<>>, map |-> EmptyMap ]

\* Query::limit
Query_limit(self, n) == [self EXCEPT !.limit = Some(n)]

\* a variant that loses the cursor
Query_last_dropped(self, cursor) == self

\* Query::last
Query_last(self, cursor) == [self EXCEPT !.last = Some(cursor)]

\* Query::sort
Query_sort(self, desc) == [self EXCEPT !.sort = Some(desc)]

\* a variant that keeps the value a key already has
MapInsert_keep_first(m, key, value) ==
    [ k \in DOMAIN m \cup {key} |-> IF k \in DOMAIN m THEN m[k] ELSE value ]

\* Map::insert: a later insert of the same key overwrites the earlier one
MapInsert(m, key, value) ==
    [ k \in DOMAIN m \cup {key} |-> IF k = key THEN value ELSE m[k] ]

\* Query::equals
Query_equals(self, field, value) ==
    [self EXCEPT !.map = MapInsert(self.map, field, value)]

\* a variant that leaves the current group out when it is empty
Query_serialize_skip_empty(self) ==
    ("limit" :> self.limit[1])
    @@ (IF self.last # None THEN "last" :> self.last[1] ELSE EmptyMap)
    @@ (IF self.sort # None /\ self.sort[1] THEN "sort" :> "desc" ELSE EmptyMap)
    @@ ("query" :> IF self.map = EmptyMap /\ self.container # <<>>
                   THEN self.container ELSE Append(self.container, self.map))

\* a variant that sends sort whenever it is Some, whatever its value
Query_serialize_sort_always(self) ==
    ("limit" :> self.limit[1])
    @@ (IF self.last # None THEN "last" :> self.last[1] ELSE EmptyMap)
    @@ (IF self.sort # None THEN "sort" :> "desc" ELSE EmptyMap)
    @@ ("query" :> Append(self.container, self.map))

\* impl Serialize for Query: the JSON object sent as the request body
Query_serialize(self) ==
    ("limit" :> self.limit[1])
    @@ (IF self.last # None THEN "last" :> self.last[1] ELSE EmptyMap)
    @@ (IF self.sort # None /\ self.sort[1] THEN "sort" :> "desc" ELSE EmptyMap)
    @@ ("query" :> Append(self.container, self.map))

\* Query::not_equals
Query_not_equals(self, field, value) ==
    [self EXCEPT !.map = MapInsert(self.map, field \o "?ne", value)]

\* Query::greater_than
Query_greater_than(self, field, value) ==
    [self EXCEPT !.map = MapInsert(self.map, field \o "?gt", value)]

\* Query::greater_than_or_equals
Query_greater_than_or_equals(self, field, value) ==
    [self EXCEPT !.map = MapInsert(self.map, field \o "?gte", value)]

\* Query::less_than
Query_less_than(self, field, value) ==
    [self EXCEPT !.map = MapInsert(self.map, field \o "?lt", value)]

\* Query::less_than_or_equals
Query_less_than_or_equals(self, field, value) ==
    [self EXCEPT !.map = MapInsert(self.map, field \o "?lte", value)]

\* Query::in_range
Query_in_range(self, field, value) ==
    [self EXCEPT !.map = MapInsert(self.map, field \o "?range", value)]

\* Query::contains
Query_contains(self, field, value) ==
    [self EXCEPT !.map = MapInsert(self.map, field \o "?contains", value)]

\* Query::append
Query_append(self, value) ==
    [self EXCEPT !.container = Append(self.container, value)]

\* a variant that forgets the current group of other
Query_union_no_current(self, other) ==
    [self EXCEPT !.container = self.container \o other.container]

\* a variant that also takes over the current group of other
Query_union_takes_map(self, other) ==
    [self EXCEPT !.container = (self.container \o other.container) \o <<other.map>>,
                 !.map = other.map]

\* Query::union
Query_union(self, other) ==
    [self EXCEPT !.container = (self.container \o other.container) \o <<other.map>>]

\* the predicate methods impl Query has
QueryComparators ==
    { "equals", "not_equals", "greater_than", "greater_than_or_equals",
      "less_than", "less_than_or_equals", "in_range", "contains" }

\* the call of the predicate method named op
Query_predicate(self, op, field, value) ==
    CASE op = "equals" -> Query_equals(self, field, value)
      [] op = "not_equals" -> Query_not_equals(self, field, value)
      [] op = "greater_than" -> Query_greater_than(self, field, value)
      [] op = "greater_than_or_equals" -> Query_greater_than_or_equals(self, field, value)
      [] op = "less_than" -> Query_less_than(self, field, value)
      [] op = "less_than_or_equals" -> Query_less_than_or_equals(self, field, value)
      [] op = "in_range" -> Query_in_range(self, field, value)
      [] op = "contains" -> Query_contains(self, field, value)

\* values the model passes to the builder
LimitValues == { 5, 1000 }
BuilderCursors == { "c0" }
FieldNames == { "f" }
FieldValues == { 1, 2 }

----------------------------------------------------------------------------
(* The query endpoint, as walk sees it *)

\* cursors the server returns in paging.last; "" (or no last at all, which
\* Paging reads as the default "") means there is no further page
ServerCursors == { "", "c1", "c2" }

\* numbers of items of one page
PageSizes == { 0, 1, 2 }

\* errors Base::request returns
RequestErrors == { "TransportError", "NotFound" }

\* the items of the page that answers request number k
PageItems(k, size) == [ j \in 1..size |-> [page |-> k, idx |-> j] ]

\* Base::request("POST", "/query", body), answering request number k:
\* Err(e), Ok of a value that is a page {paging, items}, or Ok of a value
\* that is no such page
Request(k) ==
    { [kind |-> "err", err |-> e, last |-> "", items |-> <<>>] : e \in RequestErrors }
    \cup { [kind |-> "malformed", err |-> "", last |-> "", items |-> <<>>] }
    \cup { [kind |-> "page", err |-> "", last |-> c, items |-> PageItems(k, n)] :
             c \in ServerCursors, n \in PageSizes }

\* Query::run: the body handed to Base::request
Query_run(self) == Query_serialize(self)

\* Result<Vec<Value>, DetaError>
ResNone == [kind |-> "none", items |-> <<>>, err |-> ""]
ResOk(items) == [kind |-> "Ok", items |-> items, err |-> ""]
ResErr(e) == [kind |-> "Err", items |-> <<>>, err |-> e]

----------------------------------------------------------------------------
(* Query::walk *)

\* a variant that never sees the end of the pages
WalkContinue_always(last) == TRUE

\* a variant that stops after one page whatever the cursor
WalkContinue_never(last) == FALSE

\* while !last.is_empty()
WalkContinue(last) == last # ""

\* a variant that fails the whole walk on a later error
WalkBreak_fails(items, e) == ResErr(e)

\* if resp.is_err() { break; } ... Ok(items)
WalkBreak(items, e) == ResOk(items)

QInit ==
    /\ q = Query_new
    /\ w_pc = "build"
    /\ w_items = <<>>
    /\ w_last = ""
    /\ w_reqs = <<>>
    /\ w_resps = <<>>
    /\ w_result = ResNone

\* the query side at rest, while Drive::put runs
QIdle ==
    /\ q = Query_new
    /\ w_pc = "idle"
    /\ w_items = <<>>
    /\ w_last = ""
    /\ w_reqs = <<>>
    /\ w_resps = <<>>
    /\ w_result = ResNone

\* the drive side at rest, while a query is built and walked
DIdle ==
    /\ d_pc = "idle"
    /\ d_save_as = <<>>
    /\ d_len = 0
    /\ d_init = NoInit
    /\ d_upload_id = <<>>
    /\ d_file_name = <<>>
    /\ d_done = <<>>
    /\ d_reqs = <<>>
    /\ d_result = "none"

\* the builder history at rest
BIdle ==
    /\ b_calls = <<>>
    /\ b_pre = Query_new

\* Base::put has not returned
PutNone == [ kind |-> "none", status |-> 0 ]

\* Base::put at rest
PIdle ==
    /\ p_pc = "idle"
    /\ p_records = <<>>
    /\ p_reqs = <<>>
    /\ p_result = PutNone

\* the updaters at rest
UIdle ==
    /\ u_calls = <<>>
    /\ u_data = <<>>
    /\ u_updates = <<>>
    /\ u_body = <<>>

BuilderStep(next) ==
    /\ w_pc = "build"
    /\ q' = next
    /\ UNCHANGED <<w_pc, w_items, w_last, w_reqs, w_resps, w_result>>
    /\ UNCHANGED <<dvars, bvars, pvars, uvars>>

SetLimit == \E n \in LimitValues : BuilderStep(Query_limit(q, n))

SetLast == \E c \in BuilderCursors : BuilderStep(Query_last(q, c))

SetSort == \E desc \in BOOLEAN : BuilderStep(Query_sort(q, desc))

SetEquals == \E f \in FieldNames, v \in FieldValues : BuilderStep(Query_equals(q, f, v))

\* what walk does with the answer r to the request it just issued; first is
\* TRUE for the request before the loop (query.rs:51-59) and FALSE for one
\* of the loop (query.rs:62-70)
WalkHandle(r, first) ==
    /\ w_resps' = Append(w_resps, r)
    /\ IF r.kind = "err"
       THEN /\ w_result' = IF first THEN ResErr(r.err) ELSE WalkBreak(w_items, r.err)
            /\ w_pc' = "done"
            /\ UNCHANGED <<w_items, w_last>>
       ELSE IF r.kind = "malformed"
       THEN /\ w_pc' = "panicked"
            /\ UNCHANGED <<w_items, w_last, w_result>>
       ELSE /\ w_items' = w_items \o r.items
            /\ w_last' = r.last
            /\ IF WalkContinue(r.last)
               THEN w_pc' = "loop" /\ w_result' = w_result
               ELSE w_pc' = "done" /\ w_result' = ResOk(w_items \o r.items)

\* query.rs:49-59: walk up to its first request and the reading of the answer
WalkFirst ==
    /\ w_pc = "build"
    /\ w_reqs' = Append(w_reqs, Query_run(q))
    /\ \E r \in Request(1) : WalkHandle(r, TRUE)
    /\ UNCHANGED q
    /\ UNCHANGED <<dvars, bvars, pvars, uvars>>

\* query.rs:59-71: one iteration of the loop
WalkNext ==
    /\ w_pc = "loop"
    /\ Len(w_reqs) < MaxRequests
    /\ LET query == Query_last(q, w_last)
       IN  w_reqs' = Append(w_reqs, Query_run(query))
    /\ \E r \in Request(Len(w_reqs) + 1) : WalkHandle(r, FALSE)
    /\ UNCHANGED q
    /\ UNCHANGED <<dvars, bvars, pvars, uvars>>

NextWalk == SetLimit \/ SetLast \/ SetSort \/ SetEquals \/ WalkFirst \/ WalkNext

InitWalk == QInit /\ DIdle /\ BIdle /\ PIdle /\ UIdle

SpecWalk == InitWalk /\ [][NextWalk]_vars


----------------------------------------------------------------------------
(* Query::walk: properties *)

IsPage(r) == r.kind = "page"

\* the items of a sequence of answers, page after page
RECURSIVE FlattenItems(_)
FlattenItems(resps) ==
    IF resps = <<>> THEN <<>>
    ELSE Head(resps).items \o FlattenItems(Tail(resps))

RECURSIVE SumSizes(_)
SumSizes(resps) ==
    IF resps = <<>> THEN 0
    ELSE Len(Head(resps).items) + SumSizes(Tail(resps))

\* the keys of a request body other than last
FixedKeys == { "limit", "sort", "query" }

\* C8: when the server has answered with N pages, the first N-1 with a
\* non-empty cursor and the last with an empty one, walk has returned after
\* exactly N requests, with the s1+...+sN items of the pages in page order;
\* and walk never issues a request after a page with an empty cursor.
C8_WalkAggregates ==
    LET N == Len(w_resps) IN
    /\ \A k \in 1..(N - 1) : IsPage(w_resps[k]) => w_resps[k].last # ""
    /\ (/\ N >= 1
        /\ \A k \in 1..N : IsPage(w_resps[k])
        /\ w_resps[N].last = "")
       => /\ w_pc = "done"
          /\ Len(w_reqs) = N
          /\ w_result.kind = "Ok"
          /\ w_result.items = FlattenItems(w_resps)
          /\ Len(w_result.items) = SumSizes(w_resps)

\* three pages of 2, 1 and 2 items were aggregated
C8_Witness ==
    /\ w_pc = "done"
    /\ Len(w_resps) = 3
    /\ \A k \in 1..3 : IsPage(w_resps[k])
    /\ Len(w_resps[1].items) = 2 /\ Len(w_resps[2].items) = 1
    /\ Len(w_resps[3].items) = 2
    /\ Len(w_result.items) = 5

\* C9: the first request carries the builder's own last (none when unset);
\* request k >= 2 carries the paging.last of answer k-1; limit, sort and
\* query are the same in every request of the walk; and the builder is still
\* the one the first request was serialized from.
C9_CursorChain ==
    Len(w_reqs) >= 1 =>
        /\ ("last" \in DOMAIN w_reqs[1]) <=> (q.last # None)
        /\ q.last # None => w_reqs[1]["last"] = q.last[1]
        /\ w_reqs[1] = Query_serialize(q)
        /\ \A k \in 2..Len(w_reqs) :
              /\ "last" \in DOMAIN w_reqs[k]
              /\ w_reqs[k]["last"] = w_resps[k - 1].last
        /\ \A k \in 1..Len(w_reqs) : \A key \in FixedKeys :
              /\ (key \in DOMAIN w_reqs[k]) <=> (key \in DOMAIN w_reqs[1])
              /\ key \in DOMAIN w_reqs[k] => w_reqs[k][key] = w_reqs[1][key]

\* a walk of three requests from a builder with a cursor, a limit, a sort
\* and a predicate of its own, over two different server cursors
C9_Witness ==
    /\ Len(w_reqs) = 3
    /\ q.last = Some("c0")
    /\ q.limit = Some(5)
    /\ q.sort = Some(TRUE)
    /\ DOMAIN q.map # {}
    /\ w_resps[1].last = "c1"
    /\ w_resps[2].last = "c2"

\* C10: an error of the first request is returned as Err, with no items and
\* no further request; an error of a later request ends the walk, which
\* returns Ok with the items of the pages received before it; no request
\* follows an error.
C10_ErrorPolicy ==
    LET N == Len(w_resps) IN
    /\ \A k \in 1..(N - 1) : w_resps[k].kind # "err"
    /\ (N >= 1 /\ w_resps[N].kind = "err") =>
          /\ w_pc = "done"
          /\ Len(w_reqs) = N
          /\ IF N = 1
             THEN w_result = [kind |-> "Err", items |-> <<>>, err |-> w_resps[1].err]
             ELSE /\ w_result.kind = "Ok"
                  /\ w_result.items = FlattenItems(SubSeq(w_resps, 1, N - 1))

\* the third request failed after two pages that held items
C10_Witness ==
    /\ Len(w_resps) = 3
    /\ w_resps[3].kind = "err"
    /\ Len(w_resps[1].items) = 1 /\ Len(w_resps[2].items) = 2
    /\ w_result.kind = "Ok"
    /\ Len(w_result.items) = 3


\* walk has been called
WalkCalled == w_pc \in {"loop", "done", "panicked"}

\* C11: walk on a builder whose limit is set (Some) fails with a payload
\* error and issues no query request.
C11_LimitSetRejected ==
    (WalkCalled /\ q.limit # None) =>
        /\ w_reqs = <<>>
        /\ w_result.kind = "Err"

\* C12: a response body that is no page is reported to the caller as an
\* error value; walk never ends by a panic, on the first page or a later one.
C12_MalformedIsErr ==
    /\ w_pc # "panicked"
    /\ \A k \in 1..Len(w_resps) :
          w_resps[k].kind = "malformed" => (w_pc = "done" /\ w_result.kind = "Err")

----------------------------------------------------------------------------
(* Drive::put *)

DInit ==
    /\ d_pc = "call"
    /\ d_save_as \in SaveNames
    /\ d_len \in ContentLens
    /\ d_init = NoInit
    /\ d_upload_id = <<>>
    /\ d_file_name = <<>>
    /\ d_done = <<>>
    /\ d_reqs = <<>>
    /\ d_result = "none"

\* drive.rs:65-75: the single POST of the whole content.
\* send().unwrap() panics on a transport error; resp.json() is returned.
PutSmall ==
    /\ d_pc = "call"
    /\ UseSmallPath(d_len)
    /\ d_reqs' = Append(d_reqs, DriveReq("POST", "files", <<>>, d_save_as, 0, 0, d_len))
    /\ \E o \in {"transport_error", "Ok", "Err"} :
         IF o = "transport_error"
         THEN d_pc' = "panicked" /\ d_result' = d_result
         ELSE d_pc' = "done" /\ d_result' = o
    /\ UNCHANGED <<d_save_as, d_len, d_init, d_upload_id, d_file_name, d_done>>
    /\ UNCHANGED <<qvars, bvars, pvars, uvars>>

\* drive.rs:77-93: the initiate request and the reading of its response.
\* send().unwrap() and json().unwrap() panic; a JSON value without upload_id
\* or name indexes to Null, whose text is "null".
PutInitiate ==
    /\ d_pc = "call"
    /\ ~UseSmallPath(d_len)
    /\ d_reqs' = Append(d_reqs, DriveReq("POST", "uploads", <<>>, d_save_as, 0, 0, 0))
    /\ \E o \in InitOutcomes :
         /\ d_init' = o
         /\ IF o.kind = "json"
            THEN /\ d_upload_id' = StripQuotes(o.upload_id)
                 /\ d_file_name' = StripQuotes(o.name)
                 /\ d_pc' = "parts"
            ELSE /\ d_pc' = "panicked"
                 /\ UNCHANGED <<d_upload_id, d_file_name>>
    /\ UNCHANGED <<d_save_as, d_len, d_done, d_result>>
    /\ UNCHANGED <<qvars, bvars, pvars, uvars>>

\* drive.rs:94-107: one iteration of the loop over chunks.enumerate()
PutPart ==
    /\ d_pc = "parts"
    /\ Len(d_done) < Len(Chunks(d_len))
    /\ LET index == Len(d_done)
           chunk == Chunks(d_len)[index + 1]
       IN  d_reqs' = Append(d_reqs,
               DriveReq("POST", "parts", d_upload_id, d_file_name, index + 1,
                        chunk.off, chunk.size))
    /\ \E o \in PartOutcomes :
         IF o.transport_error
         THEN d_pc' = "panicked" /\ d_done' = d_done
         ELSE d_pc' = d_pc /\ d_done' = Append(d_done, o.status)
    /\ UNCHANGED <<d_save_as, d_len, d_init, d_upload_id, d_file_name, d_result>>
    /\ UNCHANGED <<qvars, bvars, pvars, uvars>>

\* drive.rs:108-133: after the loop, the commit (PATCH) or the abort (DELETE)
PutFinalize ==
    /\ d_pc = "parts"
    /\ Len(d_done) = Len(Chunks(d_len))
    /\ LET success == AllSucceeded(d_done)
       IN  d_reqs' = Append(d_reqs,
               DriveReq(IF success THEN "PATCH" ELSE "DELETE", "upload",
                        d_upload_id, d_file_name, 0, 0, 0))
    /\ \E o \in {"transport_error", "Ok", "Err"} :
         IF o = "transport_error"
         THEN d_pc' = "panicked" /\ d_result' = d_result
         ELSE d_pc' = "done" /\ d_result' = o
    /\ UNCHANGED <<d_save_as, d_len, d_init, d_upload_id, d_file_name, d_done>>
    /\ UNCHANGED <<qvars, bvars, pvars, uvars>>

NextDrive == PutSmall \/ PutInitiate \/ PutPart \/ PutFinalize

InitDrive == DInit /\ QIdle /\ BIdle /\ PIdle /\ UIdle

SpecDrive == InitDrive /\ [][NextDrive]_vars

----------------------------------------------------------------------------
(* Drive::put: properties *)

DTerminated == d_pc \in {"done", "panicked"}

LargePath == d_len > MAX_CHUNK_SIZE

\* the initiate response is a JSON value carrying both upload_id and name
InitSucceeded ==
    d_init.kind = "json" /\ d_init.upload_id.t = "string" /\ d_init.name.t = "string"

\* the initiate request was answered and the answer is a failure
InitFailed == d_init.kind # "none" /\ ~InitSucceeded

ReqsOf(path) == SelectSeq(d_reqs, LAMBDA r : r.path = path)

PartReqs == ReqsOf("parts")

Finalizes == ReqsOf("upload")

CommitIssued == \E i \in 1..Len(d_reqs) : d_reqs[i].path = "upload" /\ d_reqs[i].method = "PATCH"

AbortIssued == \E i \in 1..Len(d_reqs) : d_reqs[i].path = "upload" /\ d_reqs[i].method = "DELETE"

\* part k was attempted and did not come back with status 200
PartFailed(k) ==
    /\ k \in 1..Len(PartReqs)
    /\ (k > Len(d_done) \/ d_done[k] # 200)

\* ceil(L / MAX_CHUNK_SIZE), the number of parts of a content of L bytes
ExpectedParts(L) == CHOOSE n \in 0..(MaxChunks + 2) :
                        (n - 1) * MAX_CHUNK_SIZE < L /\ L <= n * MAX_CHUNK_SIZE

\* RFC 3986 percent-encoding of a name, for the characters of the model
RECURSIVE PercentEncode(_)
PercentEncode(s) ==
    IF s = <<>> THEN <<>>
    ELSE LET c == Head(s) IN
         (IF c = "&" THEN <<"%", "2", "6">>
          ELSE IF c = "%" THEN <<"%", "2", "5">>
          ELSE IF c = "\"" THEN <<"%", "2", "2">>
          ELSE IF c = "\\" THEN <<"%", "5", "C">>
          ELSE <<c>>) \o PercentEncode(Tail(s))

\* C1: once the initiate request of the large-object path has succeeded, the
\* call issues exactly one finalize request, a commit or an abort: never two,
\* and never none when the call has ended, whatever happened to the parts.
C1_ExactlyOneFinalize ==
    (LargePath /\ InitSucceeded) =>
        /\ Len(Finalizes) <= 1
        /\ DTerminated => Len(Finalizes) = 1

\* C2: when the call has ended after a successful initiate and some part upload failed (did not come back
\* with status 200), the abort was issued and the commit was not; a commit is
\* issued only when every part came back with status 200.
C2_FailedPartAborts ==
    /\ (DTerminated /\ InitSucceeded /\ \E k \in 1..Len(PartReqs) : PartFailed(k)) =>
            (AbortIssued /\ ~CommitIssued)
    /\ CommitIssued =>
            (/\ Len(d_done) = ExpectedParts(d_len)
             /\ \A k \in 1..Len(d_done) : d_done[k] = 200)

\* C3: a failed part upload does not stop the remaining ones: when the call
\* has ended after a successful initiate and some part was attempted, every part 1..n was attempted
\* exactly once, and the finalize request came after all of them.
C3_AllPartsAttempted ==
    (DTerminated /\ InitSucceeded /\ Len(PartReqs) > 0) =>
        /\ Len(PartReqs) = ExpectedParts(d_len)
        /\ \A k \in 1..Len(PartReqs) : PartReqs[k].part = k
        /\ \A i \in 1..Len(d_reqs) :
              d_reqs[i].path = "upload" => i = Len(d_reqs)

\* C4: when the initiate request fails (transport error, a body that is not
\* JSON, or a JSON value without upload_id and name), the call ends there:
\* the initiate stays the only request and nothing is returned as a success.
C4_InitFailureIsTerminal ==
    InitFailed =>
        /\ Len(d_reqs) = 1
        /\ DTerminated
        /\ d_result # "Ok"

\* C5: the path depends on the content length alone. Up to and including
\* MAX_CHUNK_SIZE bytes (0 included) the call issues one request only, the
\* POST of the whole content, and opens no upload session; above it the first
\* request is the initiate.
C5_PathByLength ==
    d_reqs # <<>> =>
        IF d_len <= 10485760
        THEN /\ Len(d_reqs) = 1
             /\ d_reqs[1].method = "POST" /\ d_reqs[1].path = "files"
             /\ d_reqs[1].off = 0 /\ d_reqs[1].size = d_len
             /\ DTerminated
        ELSE /\ d_reqs[1].method = "POST" /\ d_reqs[1].path = "uploads"
             /\ \A i \in 1..Len(d_reqs) : d_reqs[i].path # "files"

\* the small path was taken with exactly MAX_CHUNK_SIZE bytes, and the large
\* path with one byte more
C5_Witness ==
    /\ d_len = 10485760
    /\ d_pc = "done"
    /\ Len(d_reqs) = 1

\* C6: once the initiate has succeeded on a content of L bytes, a call that
\* has ended issued exactly ceil(L / MAX_CHUNK_SIZE) part uploads, numbered
\* 1..n in this order, each of MAX_CHUNK_SIZE bytes but the last, which has
\* the remaining 1..MAX_CHUNK_SIZE bytes, and together they are the content.
C6_PartsCoverContent ==
    (DTerminated /\ LargePath /\ InitSucceeded) =>
        LET n == Len(PartReqs) IN
        /\ n = ExpectedParts(d_len)
        /\ \A k \in 1..n :
              /\ PartReqs[k].part = k
              /\ PartReqs[k].off = (k - 1) * MAX_CHUNK_SIZE
              /\ k < n => PartReqs[k].size = MAX_CHUNK_SIZE
        /\ PartReqs[n].size \in 1..MAX_CHUNK_SIZE
        /\ PartReqs[n].off + PartReqs[n].size = d_len

\* The part of C6 that every run satisfies: the parts issued so far are the
\* first chunks of the content, numbered from 1, contiguous from offset 0,
\* and a finalize request is issued only after the last byte was sent.
PartsArePrefix ==
    LET n == Len(PartReqs) IN
    /\ n <= ExpectedParts(d_len)
    /\ \A k \in 1..n :
          /\ PartReqs[k].part = k
          /\ PartReqs[k].off = (k - 1) * MAX_CHUNK_SIZE
          /\ PartReqs[k].size \in 1..MAX_CHUNK_SIZE
          /\ PartReqs[k].off + PartReqs[k].size <= d_len
          /\ k < n => PartReqs[k].size = MAX_CHUNK_SIZE
    /\ Len(Finalizes) > 0 =>
          /\ n = ExpectedParts(d_len)
          /\ PartReqs[n].off + PartReqs[n].size = d_len

\* C7: every URL of one call on the large-object path carries the same name, save_as percent-encoded
\* once, whatever the server returned in the initiate response.
C7_OneEncodedName ==
    LargePath => \A i \in 1..Len(d_reqs) : d_reqs[i].name = PercentEncode(d_save_as)

\* The part of C7 about the server: every URL carries the name of the first.
C7_SameNameEverywhere ==
    LargePath => \A i \in 1..Len(d_reqs) : d_reqs[i].name = d_reqs[1].name

----------------------------------------------------------------------------
(* Query: sequences of builder calls *)

\* the most builder calls one run makes
MaxCalls == 3

\* inputs of the builder calls
PredFields == { "f", "f?ne" }
AppendGroups == { EmptyMap, "g" :> 1 }
OtherBuilders ==
    { Query_new,
      Query_equals(Query_new, "g", 2),
      Query_equals(Query_append(Query_append(Query_new, "h" :> 1), EmptyMap), "g", 2) }

\* one entry of the call log
NoCall ==
    [ op |-> "", field |-> "", value |-> 0, cursor |-> "", desc |-> FALSE,
      group |-> EmptyMap, other |-> Query_new ]

\* a builder method returns the builder it was called on, changed
BuilderCall(next, call) ==
    /\ w_pc = "building"
    /\ Len(b_calls) < MaxCalls
    /\ b_pre' = q
    /\ q' = next
    /\ b_calls' = Append(b_calls, call)
    /\ UNCHANGED <<w_pc, w_items, w_last, w_reqs, w_resps, w_result>>
    /\ UNCHANGED <<dvars, pvars, uvars>>

CallPredicate(op, fields, values) ==
    \E f \in fields, v \in values :
        BuilderCall(Query_predicate(q, op, f, v),
                    [NoCall EXCEPT !.op = op, !.field = f, !.value = v])

CallEquals == CallPredicate("equals", PredFields, FieldValues)
CallNotEquals == CallPredicate("not_equals", FieldNames, FieldValues)
CallGreaterThan == CallPredicate("greater_than", FieldNames, {1})
CallGreaterThanOrEquals == CallPredicate("greater_than_or_equals", FieldNames, {1})
CallLessThan == CallPredicate("less_than", FieldNames, {1})
CallLessThanOrEquals == CallPredicate("less_than_or_equals", FieldNames, {1})
CallInRange == CallPredicate("in_range", FieldNames, {1})
CallContains == CallPredicate("contains", FieldNames, {1})

CallLimit ==
    \E n \in LimitValues :
        BuilderCall(Query_limit(q, n), [NoCall EXCEPT !.op = "limit", !.value = n])

CallLast ==
    \E c \in BuilderCursors :
        BuilderCall(Query_last(q, c), [NoCall EXCEPT !.op = "last", !.cursor = c])

CallSort ==
    \E d \in BOOLEAN :
        BuilderCall(Query_sort(q, d), [NoCall EXCEPT !.op = "sort", !.desc = d])

CallAppend ==
    \E g \in AppendGroups :
        BuilderCall(Query_append(q, g), [NoCall EXCEPT !.op = "append", !.group = g])

CallUnion ==
    \E o \in OtherBuilders :
        BuilderCall(Query_union(q, o), [NoCall EXCEPT !.op = "union", !.other = o])

BInit ==
    /\ q = Query_new
    /\ b_calls = <<>>
    /\ b_pre = Query_new
    /\ w_pc = "building"
    /\ w_items = <<>>
    /\ w_last = ""
    /\ w_reqs = <<>>
    /\ w_resps = <<>>
    /\ w_result = ResNone

NextBuilder ==
    \/ CallEquals
    \/ CallNotEquals
    \/ CallGreaterThan
    \/ CallGreaterThanOrEquals
    \/ CallLessThan
    \/ CallLessThanOrEquals
    \/ CallInRange
    \/ CallContains
    \/ CallLimit
    \/ CallLast
    \/ CallSort
    \/ CallAppend
    \/ CallUnion

InitBuilder == BInit /\ DIdle /\ PIdle /\ UIdle

SpecBuilder == InitBuilder /\ [][NextBuilder]_vars

----------------------------------------------------------------------------
(* Query builder: properties *)

\* the indices of the predicate calls of the log
PredCalls == { i \in 1..Len(b_calls) : b_calls[i].op \in QueryComparators }

\* the comparator suffixes of the query language
Suffix ==
    [ equals |-> "", not_equals |-> "?ne", greater_than |-> "?gt",
      greater_than_or_equals |-> "?gte", less_than |-> "?lt",
      less_than_or_equals |-> "?lte", prefix |-> "?pfx", in_range |-> "?range",
      contains |-> "?contains", not_contains |-> "?not_contains" ]

\* the key a logged predicate call stands for
KeyOfCall(i) == b_calls[i].field \o Suffix[b_calls[i].op]

\* the last element of a non-empty set of indices
MaxOf(S) == CHOOSE i \in S : \A j \in S : j <= i

\* C13 as stated: the current group holds one entry per distinct (field,
\* comparator) pair that was called, and the entry of a pair is the value of the
\* last call made for that pair.
C13_OneEntryPerPair ==
    w_pc = "building" =>
        LET pairs == { <<b_calls[i].field, b_calls[i].op>> : i \in PredCalls }
            callsOf(pr) == { i \in PredCalls : <<b_calls[i].field, b_calls[i].op>> = pr }
        IN  /\ Cardinality(DOMAIN q.map) = Cardinality(pairs)
            /\ \A pr \in pairs :
                  LET k == KeyOfCall(MaxOf(callsOf(pr)))
                  IN  /\ k \in DOMAIN q.map
                      /\ q.map[k] = b_calls[MaxOf(callsOf(pr))].value

\* C13, amended: the current group holds one entry per distinct key string
\* (field followed by the comparator suffix) that was produced, the entry of a
\* key is the value of the last call that produced that key, and the other
\* entries are those the group had before the call.
C13_OneEntryPerKey ==
    w_pc = "building" =>
        LET keys == { KeyOfCall(i) : i \in PredCalls }
            callsOf(k) == { i \in PredCalls : KeyOfCall(i) = k }
        IN  /\ DOMAIN q.map = keys
            /\ \A k \in keys : q.map[k] = b_calls[MaxOf(callsOf(k))].value
            /\ (b_calls # <<>> /\ Len(b_calls) \in PredCalls) =>
                  \A k \in DOMAIN b_pre.map :
                      k # KeyOfCall(Len(b_calls)) =>
                          (k \in DOMAIN q.map /\ q.map[k] = b_pre.map[k])

\* a key was set, another key was set, and the first key was set again to a
\* different value
C13_Witness ==
    /\ w_pc = "building"
    /\ Len(b_calls) = 3
    /\ PredCalls = {1, 2, 3}
    /\ KeyOfCall(1) = KeyOfCall(3)
    /\ KeyOfCall(2) # KeyOfCall(1)
    /\ b_calls[1].value # b_calls[3].value
    /\ Cardinality(DOMAIN q.map) = 2

\* C14 as stated: the builder offers the ten comparators, each encoded as the
\* field name followed by its suffix, and no two comparators on one field
\* produce the same key.
C14_TenComparators ==
    w_pc = "building" =>
        /\ \A op \in DOMAIN Suffix :
              /\ op \in QueryComparators
              /\ \A f \in FieldNames :
                    DOMAIN Query_predicate(Query_new, op, f, 1).map = { f \o Suffix[op] }
        /\ \A op1, op2 \in DOMAIN Suffix : \A f \in FieldNames :
              op1 # op2 => f \o Suffix[op1] # f \o Suffix[op2]

\* the comparators impl Query does offer are encoded as stated and do not
\* collide on one field
EightComparatorsEncoded ==
    w_pc = "building" =>
        /\ \A i \in PredCalls :
              (b_calls[i].op \in QueryComparators /\ i = Len(b_calls)) =>
                  KeyOfCall(i) \in DOMAIN q.map
        /\ \A op1, op2 \in QueryComparators : \A f \in FieldNames :
              op1 # op2 =>
                  DOMAIN Query_predicate(Query_new, op1, f, 1).map
                      # DOMAIN Query_predicate(Query_new, op2, f, 1).map

\* the last call of the log was a union
UnionCalled == w_pc = "building" /\ b_calls # <<>> /\ b_calls[Len(b_calls)].op = "union"

\* the groups of the receiver and of other are in the serialized array, unchanged
\* and in their order
UnionKeepsGroups(a, b, groups) ==
    /\ Len(groups) >= Len(a.container) + Len(b.container)
    /\ \A i \in 1..Len(a.container) : groups[i] = a.container[i]
    /\ \A i \in 1..Len(b.container) : groups[Len(a.container) + i] = b.container[i]

\* C15 as stated: serializing a.union(b) yields a.groups + b.groups + 1 groups,
\* the groups of a and b unchanged.
C15_UnionGroupsPlusOne ==
    UnionCalled =>
        LET a == b_pre
            b == b_calls[Len(b_calls)].other
            groups == Query_serialize(q)["query"]
        IN  /\ Len(groups) = Len(a.container) + Len(b.container) + 1
            /\ UnionKeepsGroups(a, b, groups)

\* C15, amended: serializing a.union(b) yields a.groups + b.groups + 2 groups:
\* the groups of a, the groups of b, the current group of b, and last the
\* current group of a; the groups of a and b are unchanged.
C15_UnionGroupsPlusTwo ==
    UnionCalled =>
        LET a == b_pre
            b == b_calls[Len(b_calls)].other
            groups == Query_serialize(q)["query"]
        IN  /\ Len(groups) = Len(a.container) + Len(b.container) + 2
            /\ UnionKeepsGroups(a, b, groups)
            /\ groups[Len(groups) - 1] = b.map
            /\ groups[Len(groups)] = a.map

\* a union of two builders that both have accumulated groups and a non-empty
\* current group
C15_Witness ==
    /\ UnionCalled
    /\ b_pre.container # <<>>
    /\ b_pre.map # EmptyMap
    /\ b_calls[Len(b_calls)].other.container # <<>>
    /\ b_calls[Len(b_calls)].other.map # EmptyMap
    /\ Len(Query_serialize(q)["query"]) >= 5

\* the groups the calls of the log added, in the order they were added
RECURSIVE AddedGroups(_)
AddedGroups(calls) ==
    IF calls = <<>> THEN <<>>
    ELSE LET c == calls[Len(calls)]
             before == AddedGroups(SubSeq(calls, 1, Len(calls) - 1))
         IN  CASE c.op = "append" -> Append(before, c.group)
               [] c.op = "union" -> (before \o c.other.container) \o <<c.other.map>>
               [] OTHER -> before

\* C16: the serialized query field is a non-empty array whose last element is
\* the current group, after all appended and unioned groups in the order they
\* were added, also when the current group is empty or the only group.
C16_TrailingCurrentGroup ==
    w_pc = "building" =>
        LET groups == Query_serialize(q)["query"]
        IN  /\ Len(groups) >= 1
            /\ groups[Len(groups)] = q.map
            /\ groups = Append(AddedGroups(b_calls), q.map)

\* groups were added and the current group is empty
C16_Witness ==
    /\ w_pc = "building"
    /\ Len(AddedGroups(b_calls)) >= 2
    /\ q.map = EmptyMap
    /\ Len(Query_serialize(q)["query"]) = Len(AddedGroups(b_calls)) + 1

\* the calls of the log with the given method
CallsOf(op) == { i \in 1..Len(b_calls) : b_calls[i].op = op }

\* C17: last is present exactly when a cursor has been set, sort is present
\* exactly when sort was last set to true and is then "desc", and limit is
\* always present with the last value set, 1000 when never set.
C17_OptionalKeys ==
    w_pc = "building" =>
        LET body == Query_serialize(q)
        IN  /\ ("last" \in DOMAIN body) <=> (CallsOf("last") # {})
            /\ CallsOf("last") # {} => body["last"] = b_calls[MaxOf(CallsOf("last"))].cursor
            /\ ("sort" \in DOMAIN body) <=>
                  (CallsOf("sort") # {} /\ b_calls[MaxOf(CallsOf("sort"))].desc)
            /\ "sort" \in DOMAIN body => body["sort"] = "desc"
            /\ "limit" \in DOMAIN body
            /\ body["limit"] = IF CallsOf("limit") = {} THEN 1000
                               ELSE b_calls[MaxOf(CallsOf("limit"))].value

\* sort was set to true and then to false, a cursor and a limit were set
C17_Witness ==
    /\ w_pc = "building"
    /\ CallsOf("sort") # {}
    /\ \E i \in CallsOf("sort") : b_calls[i].desc
    /\ ~b_calls[MaxOf(CallsOf("sort"))].desc
    /\ "sort" \notin DOMAIN Query_serialize(q)
    /\ "limit" \in DOMAIN Query_serialize(q)

\* C18: union leaves the receiver's current group, limit, last and sort
\* unchanged and keeps its accumulated groups in their order; it only adds
\* other's accumulated groups followed by other's current group.
C18_UnionFrame ==
    UnionCalled =>
        LET other == b_calls[Len(b_calls)].other
        IN  /\ q.map = b_pre.map
            /\ q.limit = b_pre.limit
            /\ q.last = b_pre.last
            /\ q.sort = b_pre.sort
            /\ q.container = (b_pre.container \o other.container) \o <<other.map>>

\* a union into a builder that has a non-empty current group, a cursor and a
\* group of its own, with another builder whose current group differs
C18_Witness ==
    /\ UnionCalled
    /\ b_pre.map # EmptyMap
    /\ b_pre.map # b_calls[Len(b_calls)].other.map
    /\ b_calls[Len(b_calls)].other.container # <<>>
    /\ Len(q.container) > Len(b_pre.container)

----------------------------------------------------------------------------
(* Base::put (base.rs) *)

\* the most records one put is called with
MaxRecords == 26

\* the i-th record of a call: with or without a key, with expires_in,
\* expires_at, both or neither, its value a JSON object or not
RecordOf(i, isObject) ==
    [ key |-> IF (i \div 4) % 2 = 0 THEN Some(i) ELSE None,
      value |-> [ object |-> isObject, n |-> i ],
      expires_in |-> IF i % 2 = 1 THEN Some(60) ELSE None,
      expires_at |-> IF i % 4 \in {2, 3} THEN Some(5) ELSE None ]

\* chrono::Utc::now().timestamp() as read while record number i is converted.
\* The wall clock may show any instant at any read (the same as at another
\* read, a later or an earlier one), so the model fixes no number for it: a
\* reading is the symbol of its read. chrono::Utc::now() panics when the
\* system clock is before the Unix epoch or out of range: then there is no
\* reading
ClockRead(i, fails) == IF fails THEN None ELSE Some([ read |-> i ])

\* timestamp + expires_in, for a clock reading now = Some(reading)
ExpiresAfter(now, expires_in) == [ clock |-> now, plus |-> expires_in ]

\* expires_at, an instant given by the caller
ExpiresAt(expires_at) == [ clock |-> None, plus |-> expires_at ]

\* the vectors of records put is called with: n records, all with an object
\* value or the first one with a value that is not an object
RecordVecs ==
    { [ i \in 1..n |-> RecordOf(i, TRUE) ] : n \in 0..MaxRecords }
    \cup { [ i \in 1..n |-> RecordOf(i, i # 1) ] : n \in 1..MaxRecords }

\* Record::json: value.as_object().unwrap() with the key inserted, and
\* __expires: the clock reading now plus expires_in if that is set, else
\* expires_at if that is set. It panics (ok is FALSE) when the value is not an
\* object, and when expires_in is set and the clock cannot be read
Record_json(record, now) ==
    [ ok |-> record.value.object /\ (record.expires_in # None => now # None),
      item |-> ("n" :> record.value.n)
               @@ (IF record.key # None THEN "key" :> record.key[1] ELSE EmptyMap)
               @@ (IF record.expires_in # None
                   THEN "__expires" :> ExpiresAfter(now, record.expires_in[1])
                   ELSE IF record.expires_at # None
                   THEN "__expires" :> ExpiresAt(record.expires_at[1])
                   ELSE EmptyMap) ]

\* the answers of the server to the PUT
PutOutcomes == [ transport_error : BOOLEAN, status : {207, 400}, json_ok : BOOLEAN ]

\* Base::put: build the items, send one PUT, return status and body; the
\* clock cannot be read from record number fails_from on (0: it can always be
\* read)
BasePut(o, fails_from) ==
    /\ p_pc = "called"
    /\ LET items == [ i \in 1..Len(p_records) |->
                          Record_json(p_records[i],
                                      ClockRead(i, fails_from # 0 /\ i >= fails_from)) ]
       IN  IF \E i \in 1..Len(items) : ~items[i].ok
           THEN /\ p_pc' = "panicked"
                /\ p_reqs' = p_reqs
                /\ p_result' = [ kind |-> "panic", status |-> 0 ]
           ELSE /\ p_reqs' = Append(p_reqs,
                                    [ method |-> "PUT", path |-> "/items",
                                      items |-> [ i \in 1..Len(items) |-> items[i].item ] ])
                /\ IF o.transport_error \/ ~o.json_ok
                   THEN /\ p_pc' = "panicked"
                        /\ p_result' = [ kind |-> "panic", status |-> 0 ]
                   ELSE /\ p_pc' = "returned"
                        /\ p_result' = [ kind |-> "returned", status |-> o.status ]
    /\ UNCHANGED p_records
    /\ UNCHANGED <<dvars, qvars, bvars, uvars>>

PInit ==
    /\ p_pc = "called"
    /\ p_records \in RecordVecs
    /\ p_reqs = <<>>
    /\ p_result = PutNone

NextPut ==
    \E o \in PutOutcomes, fails_from \in 0..Len(p_records) : BasePut(o, fails_from)

InitPut == PInit /\ DIdle /\ QIdle /\ BIdle /\ UIdle

SpecPut == InitPut /\ [][NextPut]_vars

\* put panicked while it built the items, before it sent anything: a record
\* value that is not an object, or a clock that cannot be read
PanickedBeforeSend == p_pc = "panicked" /\ p_reqs = <<>>

\* put has ended
PutEnded == p_pc \in {"returned", "panicked"}

\* the one request carries all the records, each as Record::json gives it
CarriesAllRecords ==
    /\ Len(p_reqs) = 1
    /\ p_reqs[1].method = "PUT"
    /\ Len(p_reqs[1].items) = Len(p_records)
    /\ \A i \in 1..Len(p_records) :
          p_reqs[1].items[i] = Record_json(p_records[i], ClockRead(i, FALSE)).item

\* C19: put with more than 25 records is rejected locally with a payload-size
\* error and sends no request; with 25 records or fewer it sends exactly one
\* PUT request carrying all the records. (Stated for the calls in which the
\* building of the items did not panic.)
C19_PutLimit ==
    (PutEnded /\ ~PanickedBeforeSend) =>
        IF Len(p_records) > 25
        THEN /\ p_reqs = <<>>
             /\ p_result.kind = "payload_error"
        ELSE CarriesAllRecords

\* put, whatever the number of records, either panics while it builds the
\* items and sends nothing, or sends one PUT request carrying all the records
PutSendsAllOrNothing ==
    PutEnded => (PanickedBeforeSend \/ CarriesAllRecords)

\* put panics before sending only if a record value is not an object or a
\* record has expires_in (whose clock read failed)
PanicNeedsCause ==
    (PutEnded /\ PanickedBeforeSend) =>
        \E i \in 1..Len(p_records) :
            ~p_records[i].value.object \/ p_records[i].expires_in # None

----------------------------------------------------------------------------
(* The updaters: updater.rs Updater, base.rs Updater, utils.rs UpdateBuilder *)

\* the most updater calls before the update is sent
MaxUpdates == 3

\* inputs of the updater calls
UpdFields == { "a", "b" }
UpdValues == { 1, 2 }

\* enum Operation, by Operation::as_string
Operations == { "set", "delete", "append", "prepend", "increment" }

\* JSON values: an object, an array, null
JObj(m) == [ t |-> "object", v |-> m ]
JArr(a) == [ t |-> "array", v |-> a ]
Value_Null == [ t |-> "null", v |-> <<>> ]

\* a serialization that succeeded with the given body, one that panicked
Serialized(body) == [ ok |-> TRUE, body |-> body ]
SerializePanic == [ ok |-> FALSE, body |-> Value_Null ]

\* Value::as_object
as_object(value) == IF value.t = "object" THEN Some(value.v) ELSE None

\* updater.rs Updater: set, delete, append, prepend, increment push one triple;
\* delete pushes Value::Null
Updater_push(data, field, value, operation) ==
    Append(data, [ field |-> field,
                   value |-> IF operation = "delete" THEN None ELSE Some(value),
                   operation |-> operation ])

\* updater.rs impl Serialize for Updater: one array per operation that occurs
\* in data; a delete entry is the field name (value None here), any other entry
\* is the object {field: value}
Updater_serialize(data) ==
    LET ops == { data[i].operation : i \in 1..Len(data) }
        entry(d) == [ field |-> d.field, value |-> d.value ]
        RECURSIVE op_vec(_, _)
        op_vec(op, n) ==
            IF n = 0 THEN <<>>
            ELSE IF data[n].operation = op
                 THEN Append(op_vec(op, n - 1), entry(data[n]))
                 ELSE op_vec(op, n - 1)
    IN  Serialized(JObj([ op \in ops |-> JArr(op_vec(op, Len(data))) ]))

\* base.rs Updater::new, utils.rs UpdateBuilder::new
BaseUpdater_new ==
    JObj([ set |-> JObj(EmptyMap), delete |-> JArr(<<>>), append |-> JObj(EmptyMap),
           prepend |-> JObj(EmptyMap), increment |-> JObj(EmptyMap) ])

\* base.rs Updater::default, utils.rs UpdateBuilder::default (derive(Default)):
\* updates is Value::default()
BaseUpdater_default == Value_Null

\* the updater of base.rs / utils.rs: how it was constructed, whether a call
\* on it has panicked, and its updates
BaseUpdater(ctor, updates) == [ ctor |-> ctor, panicked |-> FALSE, updates |-> updates ]

\* the starts of the updater of base.rs / utils.rs
BaseUpdaterStarts ==
    { BaseUpdater("new", BaseUpdater_new), BaseUpdater("default", BaseUpdater_default) }

\* value[key] as a place to assign to (serde_json IndexMut<&str> for Value): a
\* null value becomes an empty object, a missing key is inserted as null; ok is
\* FALSE when value is neither null nor an object (the index panics)
IndexMut(value, key) ==
    LET map == IF value.t = "null" THEN EmptyMap ELSE value.v
    IN  [ ok |-> value.t \in {"null", "object"},
          map |-> map,
          entry |-> IF value.t = "object" /\ key \in DOMAIN map THEN map[key] ELSE Value_Null ]

\* base.rs Updater and utils.rs UpdateBuilder: set, append, prepend, increment
\* assign updates[op][field]; delete pushes the field to
\* updates["delete"].as_array_mut().unwrap(). A call that panics ends the
\* program: the updater is not used again
BaseUpdater_apply(self, field, value, operation) ==
    LET top == IndexMut(self.updates, operation)
        inner == IndexMut(top.entry, field)
        panic == [self EXCEPT !.panicked = TRUE]
    IN  IF self.panicked THEN self
        ELSE IF ~top.ok THEN panic
        ELSE IF operation = "delete"
        THEN IF top.entry.t = "array"
             THEN [self EXCEPT !.updates =
                       JObj(MapInsert(top.map, "delete", JArr(Append(top.entry.v, field))))]
             ELSE panic
        ELSE IF inner.ok
             THEN [self EXCEPT !.updates =
                       JObj(MapInsert(top.map, operation,
                                      JObj(MapInsert(inner.map, field, value))))]
             ELSE panic

\* base.rs Updater::json: a clone of updates
BaseUpdater_json(updates) == Serialized(updates)

\* utils.rs UpdateBuilder::json: updates.as_object().unwrap(), then removes the
\* keys whose object is empty; as_object().unwrap() panics on a value that is
\* not an object
UpdateBuilder_json(updates) ==
    IF as_object(updates) = None THEN SerializePanic
    ELSE IF \E key \in DOMAIN updates.v : as_object(updates.v[key]) = None
    THEN SerializePanic
    ELSE Serialized(JObj([ key \in { k \in DOMAIN updates.v : updates.v[k].v # EmptyMap }
                             |-> updates.v[key] ]))

\* one updater call, made on the three updaters alike
UpdaterCall(field, value, operation) ==
    /\ u_body = <<>>
    /\ Len(u_calls) < MaxUpdates
    /\ u_calls' = Append(u_calls, [ field |-> field, operation |-> operation ])
    /\ u_data' = Updater_push(u_data, field, value, operation)
    /\ u_updates' = BaseUpdater_apply(u_updates, field, value, operation)
    /\ UNCHANGED u_body
    /\ UNCHANGED <<dvars, qvars, bvars, pvars>>

UpdSet == \E f \in UpdFields, v \in UpdValues : UpdaterCall(f, v, "set")
UpdDelete == \E f \in UpdFields : UpdaterCall(f, 0, "delete")
UpdAppend == \E f \in UpdFields : UpdaterCall(f, 1, "append")
UpdPrepend == \E f \in UpdFields : UpdaterCall(f, 1, "prepend")
UpdIncrement == \E f \in UpdFields : UpdaterCall(f, 1, "increment")

\* Updater::commit, Base::update: the body of the PATCH request is the
\* serialization of the updater
UpdCommit ==
    /\ u_body = <<>>
    /\ u_body' = << [ updater |-> Updater_serialize(u_data),
                      base |-> IF u_updates.panicked THEN SerializePanic
                               ELSE BaseUpdater_json(u_updates.updates),
                      builder |-> IF u_updates.panicked THEN SerializePanic
                                  ELSE UpdateBuilder_json(u_updates.updates) ] >>
    /\ UNCHANGED <<u_calls, u_data, u_updates>>
    /\ UNCHANGED <<dvars, qvars, bvars, pvars>>

UInit ==
    /\ u_calls = <<>>
    /\ u_data = <<>>
    /\ u_updates \in BaseUpdaterStarts
    /\ u_body = <<>>

NextUpdater ==
    \/ UpdSet
    \/ UpdDelete
    \/ UpdAppend
    \/ UpdPrepend
    \/ UpdIncrement
    \/ UpdCommit

InitUpdater == UInit /\ DIdle /\ QIdle /\ BIdle /\ PIdle

SpecUpdater == InitUpdater /\ [][NextUpdater]_vars

\* the operations that were recorded
Recorded == { u_calls[i].operation : i \in 1..Len(u_calls) }

\* a serialization succeeded, has a sub-key exactly for the recorded kinds of
\* operation, and none of its values is empty
BodyConforms(res) ==
    /\ res.ok
    /\ res.body.t = "object"
    /\ DOMAIN res.body.v = Recorded
    /\ \A op \in DOMAIN res.body.v : res.body.v[op].v # <<>>

\* the update was sent by an updater that new() constructed
SentFromNew == u_body # <<>> /\ u_updates.ctor = "new"

\* the update was sent by an updater that default() constructed
SentFromDefault == u_body # <<>> /\ u_updates.ctor = "default"

\* C20: the body of the update request has a sub-key exactly when an operation
\* of that kind was recorded; after any sequence of calls serialization succeeds
\* and no sub-key with an empty value is sent. (Stated for the updaters that
\* new() constructs.)
C20_OnlyRecordedKeys ==
    SentFromNew =>
        /\ BodyConforms(u_body[1].updater)
        /\ BodyConforms(u_body[1].base)
        /\ BodyConforms(u_body[1].builder)

\* the serialization of updater.rs has a sub-key exactly for the recorded kinds
UpdaterSerializeConforms == u_body # <<>> => BodyConforms(u_body[1].updater)

\* base.rs Updater::json of an updater from new() sends the five sub-keys
BaseJsonSendsAll ==
    SentFromNew =>
        /\ u_body[1].base.ok
        /\ DOMAIN u_body[1].base.body.v = Operations

\* utils.rs UpdateBuilder::json of an updater from new() does not return
BuilderJsonPanics == SentFromNew => ~u_body[1].builder.ok

\* an updater from default(): a delete call panics; without one, base.rs sends
\* null when nothing was recorded and else exactly the recorded sub-keys, and
\* utils.rs json panics when nothing was recorded and else returns them
DefaultUpdaterBodies ==
    SentFromDefault =>
        IF "delete" \in Recorded
        THEN u_updates.panicked /\ ~u_body[1].base.ok /\ ~u_body[1].builder.ok
        ELSE IF Recorded = {}
        THEN /\ u_body[1].base = Serialized(Value_Null)
             /\ ~u_body[1].builder.ok
        ELSE /\ BodyConforms(u_body[1].base)
             /\ BodyConforms(u_body[1].builder)

\* the fields a serialized update names under an operation
FieldsUnder(body, op) ==
    IF op \in DOMAIN body.v
    THEN { body.v[op].v[i].field : i \in 1..Len(body.v[op].v) }
    ELSE {}

\* C21: the serialized update of updater.rs never names the same field both
\* under delete and under any other operation.
C21_DeleteExclusive ==
    u_body # <<>> =>
        LET body == u_body[1].updater.body
        IN  \A op \in Operations \ {"delete"} :
                FieldsUnder(body, "delete") \cap FieldsUnder(body, op) = {}

----------------------------------------------------------------------------
(* Query::walk: termination *)

\* walk runs to its end once called: an enabled iteration of the loop is
\* eventually executed
SpecWalkLive == InitWalk /\ [][NextWalk]_vars /\ WF_vars(WalkNext)

\* the latest answer ends the pages: an error, or a page with an empty cursor
TerminalAnswer ==
    /\ w_resps # <<>>
    /\ LET r == w_resps[Len(w_resps)]
       IN  r.kind = "err" \/ (r.kind = "page" /\ r.last = "")

\* walk has returned a result
Returned == w_pc = "done" /\ w_result.kind \in {"Ok", "Err"}

\* C22: walk returns a result whenever the server answers with an empty
\* paging.last or with an error, and only then; it has no page cap and no cycle
\* detection: as long as the answers carry non-empty cursors (the same cursor
\* again included) it stays in its loop and issues the next request, up to the
\* number of requests the model follows.
C22_WalkTermination ==
    /\ [](TerminalAnswer => Returned)
    /\ [](Returned => TerminalAnswer)
    /\ []((w_pc = "loop" /\ Len(w_reqs) < MaxRequests) => ENABLED WalkNext)
    /\ \A k \in 1..(MaxRequests - 1) :
          (w_pc = "loop" /\ Len(w_reqs) = k) ~> (Len(w_reqs) = k + 1)

\* the server answered every request with the same non-empty cursor, and walk
\* is still in its loop after the last request the model follows
C22_Witness ==
    /\ w_pc = "loop"
    /\ Len(w_reqs) = MaxRequests
    /\ Len(w_resps) = MaxRequests
    /\ \A k \in 1..Len(w_resps) : IsPage(w_resps[k]) /\ w_resps[k].last = "c1"
    /\ w_result = ResNone


====
